---- MODULE Spec2Model ----
(* The payments-diagram generation endpoint (three revisions of                *)
(* app/api/flow/route: route.ts, part_001, part_002) and its two client UIs    *)
(* (app/page.tsx and part_000), as one state machine.  Texts are sequences of  *)
(* one-character strings so that trim, startsWith, includes, JSON.parse and    *)
(* JSON.stringify are computed, not assumed.  Spec is the whole system;        *)
(* LiveSpec adds that every fetch settles; CleanSpec applies cleanApiError     *)
(* to raw messages on its own.                                                 *)
EXTENDS Integers, Sequences, FiniteSets, TLC

\* ---------------------------------------------------------------- bounds
\* Narratives are built as pad ++ body ++ pad with up to MaxPad blanks a side.
MaxPad == 1

\* Longest narrative body, in characters, that a client submits.
MaxFlowLen == 10

\* ------------------------------------------------------- program constants
\* Minimum trimmed length of an accepted narrative.
MinNarrative == 10

\* ------------------------------------------------------------------ texts
Marker == <<"s","e","q","u","e","n","c","e","D","i","a","g","r","a","m">>

MsgShort == <<"P","l","e","a","s","e"," ","p","r","o","v","i","d","e"," ","a"," ","l","o","n","g","e","r"," ","n","a","r","r","a","t","i","v","e",".">>

MsgMissingKeyLocal == <<"M","i","s","s","i","n","g"," ","O","P","E","N","A","I","_","A","P","I","_","K","E","Y"," ","i","n"," ",".","e","n","v",".","l","o","c","a","l">>

MsgMissingKey == <<"M","i","s","s","i","n","g"," ","O","P","E","N","A","I","_","A","P","I","_","K","E","Y">>

MsgInvalidJSON == <<"M","o","d","e","l"," ","d","i","d"," ","n","o","t"," ","r","e","t","u","r","n"," ","v","a","l","i","d"," ","J","S","O","N",".">>

MsgRetry == <<"M","o","d","e","l"," ","d","i","d"," ","n","o","t"," ","r","e","t","u","r","n"," ","v","a","l","i","d"," ","M","e","r","m","a","i","d","."," ","T","r","y"," ","a","g","a","i","n",".">>

MsgInvalidMermaid == <<"M","o","d","e","l"," ","d","i","d"," ","n","o","t"," ","r","e","t","u","r","n"," ","v","a","l","i","d"," ","M","e","r","m","a","i","d",".">>

MsgUnknown == <<"U","n","k","n","o","w","n"," ","e","r","r","o","r">>

MsgServerError == <<"S","e","r","v","e","r"," ","e","r","r","o","r">>

OpenAIErrorOpen == <<"O","p","e","n","A","I"," ","e","r","r","o","r"," ","(">>

OpenAIErrorClose == <<")",":"," ">>

KeyFlow == <<"f","l","o","w">>

KeyMermaid == <<"m","e","r","m","a","i","d">>

KeyNotes == <<"n","o","t","e","s">>

KeyError == <<"e","r","r","o","r">>

KeyDetail == <<"d","e","t","a","i","l">>

LitNull == <<"n","u","l","l">>

LitTrue == <<"t","r","u","e">>

LitFalse == <<"f","a","l","s","e">>

\* ----------------------------------------------------------- text helpers
Whitespace == {" ", "\n", "\t", "\r"}

Digit == <<"0","1","2","3","4","5","6","7","8","9">>

RECURSIVE Rep(_, _)
\* The text made of n copies of the character c.
Rep(c, n) == IF n <= 0 THEN <<>> ELSE <<c>> \o Rep(c, n - 1)

\* String.prototype.startsWith
StartsWith(s, p) == Len(s) >= Len(p) /\ SubSeq(s, 1, Len(p)) = p

\* String.prototype.includes
Includes(s, p) == \E i \in 1..(Len(s) - Len(p) + 1) : SubSeq(s, i, i + Len(p) - 1) = p

RECURSIVE TrimStart(_)
TrimStart(s) == IF s # <<>> /\ Head(s) \in Whitespace THEN TrimStart(Tail(s)) ELSE s

RECURSIVE TrimEnd(_)
TrimEnd(s) ==
  IF s # <<>> /\ s[Len(s)] \in Whitespace THEN TrimEnd(SubSeq(s, 1, Len(s) - 1)) ELSE s

\* String.prototype.trim
Trim(s) == TrimEnd(TrimStart(s))

RECURSIVE Digits(_)
\* The decimal text of a natural number (String(n), template-literal ${n}).
Digits(n) == IF n < 10 THEN <<Digit[n + 1]>> ELSE Digits(n \div 10) \o <<Digit[(n % 10) + 1]>>

\* ------------------------------------------------------------ JSON values
\* Every JavaScript value the handlers see has the same record shape:
\* t is the type tag, s a string's text, n a number's value, mem the members
\* of an object (or the items of an array) in insertion order.
JV(t, s, n, mem) == [t |-> t, s |-> s, n |-> n, mem |-> mem]

JUndef == JV("undefined", <<>>, 0, <<>>)

JNull == JV("null", <<>>, 0, <<>>)

JTrue == JV("true", <<>>, 0, <<>>)

JFalse == JV("false", <<>>, 0, <<>>)

JStr(s) == JV("string", s, 0, <<>>)

JNum(n) == JV("number", <<>>, n, <<>>)

JObj(mem) == JV("object", <<>>, 0, mem)

JArr(mem) == JV("array", <<>>, 0, mem)

Member(k, v) == [k |-> k, v |-> v]

\* typeof v === "string"
IsString(v) == v.t = "string"

\* Property assignment obj[k] = v: replaces in place, else appends.
Put(mem, k, v) ==
  IF \E i \in 1..Len(mem) : mem[i].k = k
  THEN [i \in 1..Len(mem) |-> IF mem[i].k = k THEN Member(k, v) ELSE mem[i]]
  ELSE Append(mem, Member(k, v))

\* Property read v.k (v neither null nor undefined): undefined when absent.
Get(v, k) ==
  IF v.t = "object" /\ \E i \in 1..Len(v.mem) : v.mem[i].k = k
  THEN LET i == CHOOSE i \in 1..Len(v.mem) : v.mem[i].k = k IN v.mem[i].v
  ELSE JUndef

\* Reading a property of null or undefined throws a TypeError.
Nullish(v) == v.t \in {"null", "undefined"}

\* JavaScript truthiness of the values the model holds.
Truthy(v) ==
  CASE v.t \in {"undefined", "null", "false"} -> FALSE
    [] v.t = "string" -> v.s # <<>>
    [] v.t = "number" -> v.n # 0
    [] OTHER -> TRUE

\* ------------------------------------------------------------- JSON.parse
\* A parse step's result: ok, the value read, and the index after it.
PR(ok, v, i) == [ok |-> ok, v |-> v, i |-> i]

ParseFail == PR(FALSE, JUndef, 0)

RECURSIVE SkipWs(_, _)
SkipWs(s, i) == IF i <= Len(s) /\ s[i] \in Whitespace THEN SkipWs(s, i + 1) ELSE i

At(s, i) == IF i >= 1 /\ i <= Len(s) THEN s[i] ELSE "EOF"

Match(s, i, lit) == i + Len(lit) - 1 <= Len(s) /\ SubSeq(s, i, i + Len(lit) - 1) = lit

Unescape(c) == CASE c = "n" -> "\n" [] c = "t" -> "\t" [] c = "r" -> "\r" [] OTHER -> c

RECURSIVE ScanString(_, _, _)
\* The rest of a string literal, from the character after its opening quote.
ScanString(s, i, acc) ==
  CASE i > Len(s) -> ParseFail
    [] i <= Len(s) /\ s[i] = "\"" -> PR(TRUE, JStr(acc), i + 1)
    [] i <= Len(s) /\ s[i] = "\\" ->
         IF At(s, i + 1) \in {"n", "t", "r", "\"", "\\", "/"}
         THEN ScanString(s, i + 2, Append(acc, Unescape(s[i + 1])))
         ELSE ParseFail
    [] i <= Len(s) /\ s[i] \in {"\n", "\t", "\r"} -> ParseFail
    [] OTHER -> ScanString(s, i + 1, Append(acc, s[i]))

DigitValue(c) == CHOOSE d \in 0..9 : Digit[d + 1] = c

IsDigit(c) == \E d \in 0..9 : Digit[d + 1] = c

RECURSIVE ScanNumber(_, _, _)
ScanNumber(s, i, acc) ==
  IF i <= Len(s) /\ IsDigit(s[i])
  THEN ScanNumber(s, i + 1, 10 * acc + DigitValue(s[i]))
  ELSE PR(TRUE, JNum(acc), i)

RECURSIVE ParseValue(_, _)
RECURSIVE ParseMembers(_, _, _)
RECURSIVE ParseItems(_, _, _)

\* One JSON value starting at or after index i.
ParseValue(s, i) ==
  LET j == SkipWs(s, i)
      c == At(s, j)
  IN  CASE c = "{" ->
             IF At(s, SkipWs(s, j + 1)) = "}"
             THEN PR(TRUE, JObj(<<>>), SkipWs(s, j + 1) + 1)
             ELSE ParseMembers(s, j + 1, <<>>)
        [] c = "[" ->
             IF At(s, SkipWs(s, j + 1)) = "]"
             THEN PR(TRUE, JArr(<<>>), SkipWs(s, j + 1) + 1)
             ELSE ParseItems(s, j + 1, <<>>)
        [] c = "\"" -> ScanString(s, j + 1, <<>>)
        [] IsDigit(c) ->
             IF c = "0" /\ IsDigit(At(s, j + 1)) THEN ParseFail ELSE ScanNumber(s, j, 0)
        [] c = "n" -> IF Match(s, j, LitNull) THEN PR(TRUE, JNull, j + 4) ELSE ParseFail
        [] c = "t" -> IF Match(s, j, LitTrue) THEN PR(TRUE, JTrue, j + 4) ELSE ParseFail
        [] c = "f" -> IF Match(s, j, LitFalse) THEN PR(TRUE, JFalse, j + 5) ELSE ParseFail
        [] OTHER -> ParseFail

\* "key": value pairs up to the closing brace; a repeated key keeps its last value.
ParseMembers(s, i, acc) ==
  LET j == SkipWs(s, i)
      key == IF At(s, j) = "\"" THEN ScanString(s, j + 1, <<>>) ELSE ParseFail
      c == SkipWs(s, key.i)
      val == IF key.ok /\ At(s, c) = ":" THEN ParseValue(s, c + 1) ELSE ParseFail
      e == SkipWs(s, val.i)
      mem == Put(acc, key.v.s, val.v)
  IN  CASE ~val.ok -> ParseFail
        [] val.ok /\ At(s, e) = "," -> ParseMembers(s, e + 1, mem)
        [] val.ok /\ At(s, e) = "}" -> PR(TRUE, JObj(mem), e + 1)
        [] OTHER -> ParseFail

ParseItems(s, i, acc) ==
  LET val == ParseValue(s, i)
      e == SkipWs(s, val.i)
      mem == Append(acc, Member(Digits(Len(acc)), val.v))
  IN  CASE ~val.ok -> ParseFail
        [] val.ok /\ At(s, e) = "," -> ParseItems(s, e + 1, mem)
        [] val.ok /\ At(s, e) = "]" -> PR(TRUE, JArr(mem), e + 1)
        [] OTHER -> ParseFail

\* JSON.parse(s): ok = FALSE stands for the SyntaxError it throws.
JSONParse(s) ==
  LET r == ParseValue(s, 1)
  IN  IF r.ok /\ SkipWs(s, r.i) > Len(s) THEN PR(TRUE, r.v, r.i) ELSE ParseFail

\* --------------------------------------------------------- JSON.stringify
RECURSIVE Escape(_)
Escape(s) ==
  IF s = <<>> THEN <<>>
  ELSE (CASE Head(s) = "\n" -> <<"\\", "n">>
          [] Head(s) = "\t" -> <<"\\", "t">>
          [] Head(s) = "\r" -> <<"\\", "r">>
          [] Head(s) = "\"" -> <<"\\", "\"">>
          [] Head(s) = "\\" -> <<"\\", "\\">>
          [] OTHER -> <<Head(s)>>) \o Escape(Tail(s))

Quote(s) == <<"\"">> \o Escape(s) \o <<"\"">>

RECURSIVE Stringify(_)
RECURSIVE StringifyMembers(_, _)

\* The members of an object (array = FALSE) or the items of an array, comma separated;
\* an undefined member is left out of an object and written null in an array.
StringifyMembers(mem, array) ==
  IF mem = <<>> THEN <<>>
  ELSE LET m == Head(mem)
           rest == StringifyMembers(Tail(mem), array)
           one == IF array
                  THEN (IF m.v.t = "undefined" THEN LitNull ELSE Stringify(m.v))
                  ELSE Quote(m.k) \o <<":">> \o Stringify(m.v)
       IN  IF ~array /\ m.v.t = "undefined" THEN rest
           ELSE IF rest = <<>> THEN one ELSE one \o <<",">> \o rest

\* JSON.stringify(v)
Stringify(v) ==
  CASE v.t = "string" -> Quote(v.s)
    [] v.t = "number" -> Digits(v.n)
    [] v.t = "null" -> LitNull
    [] v.t = "true" -> LitTrue
    [] v.t = "false" -> LitFalse
    [] v.t = "object" -> <<"{">> \o StringifyMembers(v.mem, FALSE) \o <<"}">>
    [] v.t = "array" -> <<"[">> \o StringifyMembers(v.mem, TRUE) \o <<"]">>
    [] OTHER -> <<>>

\* ------------------------------------------------------------ exceptions
\* A thrown value: an Error with its message, or a value that is not an Error
\* (message then holds String(value)).
Thrown(isError, message) == [raised |-> TRUE, isError |-> isError, message |-> message]

NoThrow == [raised |-> FALSE, isError |-> FALSE, message |-> <<>>]

\* Representative texts of the runtime's own exceptions.
MsgSyntaxError == <<"U","n","e","x","p","e","c","t","e","d"," ","t","o","k","e","n"," ","i","n"," ","J","S","O","N">>

MsgTypeError == <<"C","a","n","n","o","t"," ","r","e","a","d"," ","p","r","o","p","e","r","t","i","e","s"," ","o","f"," ","n","u","l","l">>

MsgFetchFailed == <<"f","e","t","c","h"," ","f","a","i","l","e","d">>

SyntaxError == Thrown(TRUE, MsgSyntaxError)

TypeError == Thrown(TRUE, MsgTypeError)

\* -------------------------------------------------------------- responses
\* NextResponse.json(body, { status })
Resp(status, body) == [status |-> status, body |-> body]

NoResp == Resp(0, JUndef)

StatusOK == 200

StatusBadRequest == 400

StatusServerError == 500

\* { error: msg }
ErrorBody(msg) == JObj(<<Member(KeyError, JStr(msg))>>)

\* { mermaid, notes }
ResultBody(mermaid, notes) ==
  JObj(<<Member(KeyMermaid, JStr(mermaid)), Member(KeyNotes, JStr(notes))>>)

\* A handler step's outcome: respond now (call = FALSE) or call the upstream service.
Outcome(call, resp, thrown) == [call |-> call, resp |-> resp, thrown |-> thrown]

Respond(status, msg) == Outcome(FALSE, Resp(status, ErrorBody(msg)), NoThrow)

CallUpstream == Outcome(TRUE, NoResp, NoThrow)

\* ------------------------------------------------- the handler, shared parts
\* A slip: the validation left out.
RejectedNever(flow) == FALSE

\* A slip: the length taken before trimming.
RejectedUntrimmed(flow) == ~Truthy(flow) \/ ~IsString(flow) \/ Len(flow.s) < MinNarrative

\* !flow || typeof flow !== "string" || flow.trim().length < 10
Rejected(flow) == ~Truthy(flow) \/ ~IsString(flow) \/ Len(Trim(flow.s)) < MinNarrative

\* A slip: a value that is not text is kept as its JSON text instead of "".
TextOrJSON(v) == IF IsString(v) THEN v.s ELSE Stringify(v)

\* typeof v === "string" ? v : ""
TextOrEmpty(v) == IF IsString(v) THEN v.s ELSE <<>>

\* A slip: the marker compared for equality instead of as a prefix.
HasMarkerExact(mermaid) == mermaid = Marker

\* mermaid.startsWith("sequenceDiagram")
HasMarker(mermaid) == StartsWith(mermaid, Marker)

\* data?.choices?.[0]?.message?.content ?? "{}"
ContentOrEmptyObject(content) == IF Nullish(content) THEN <<"{", "}">> ELSE content.s

\* catch (err): err instanceof Error ? err.message : "Unknown error", status 500
Catch(err) ==
  Outcome(FALSE,
          Resp(StatusServerError, ErrorBody(IF err.isError THEN err.message ELSE MsgUnknown)),
          err)

\* part_002's catch: { error: "Server error", detail }, status 500
CatchDetail(err) ==
  Outcome(FALSE,
          Resp(StatusServerError,
               JObj(<<Member(KeyError, JStr(MsgServerError)),
                      Member(KeyDetail, JStr(err.message))>>)),
          err)

\* if (!mermaid.startsWith("sequenceDiagram")) ... return NextResponse.json({ mermaid, notes })
CheckMarker(mermaid, notes, retryMsg) ==
  IF ~HasMarker(mermaid)
  THEN Respond(StatusServerError, retryMsg)
  ELSE Outcome(FALSE, Resp(StatusOK, ResultBody(mermaid, notes)), NoThrow)

\* From the parsed model output to the response: the two fields, then the marker check.
Validate(parsed, retryMsg) ==
  CheckMarker(TextOrEmpty(Get(parsed, KeyMermaid)), TextOrEmpty(Get(parsed, KeyNotes)), retryMsg)

\* ------------------------------------------------------ upstream outcomes
\* What the call to the text-generation service produced:
\*   "rejects"     the call itself throws err (network level)
\*   "status"      a non-success HTTP status with a body text
\*   "unreadable"  a success status whose body is not JSON
\*   "completion"  a success status and a completion whose message content is
\*                 content (a string, null, or undefined when absent)
Up(kind, status, body, content, err) ==
  [kind |-> kind, status |-> status, body |-> body, content |-> content, err |-> err]

NoUp == Up("none", 0, <<>>, JUndef, NoThrow)

\* ------------------------------------------------ route.ts (the fetch handler)
\* Lines 5-9, from the body req.json() read (p): destructure flow, validate.
CheckRouteTs(p) ==
  CASE ~p.ok -> Catch(SyntaxError)
    [] p.ok /\ Nullish(p.v) -> Catch(TypeError)
    [] p.ok /\ ~Nullish(p.v) /\ Rejected(Get(p.v, KeyFlow)) ->
         Respond(StatusBadRequest, MsgShort)
    [] OTHER -> CallUpstream

\* Lines 4-35: up to the upstream call.
BeforeCallRouteTs(body) == CheckRouteTs(JSONParse(body))

\* Lines 44-53, from what JSON.parse(content) gave (p).
ResultRouteTs(p) ==
  CASE ~p.ok -> Catch(SyntaxError)
    [] p.ok /\ Nullish(p.v) -> Catch(TypeError)
    [] OTHER -> Validate(p.v, MsgRetry)

\* Lines 37-53: the upstream answer to the response.
AfterCallRouteTs(up) ==
  CASE up.kind = "rejects" -> Catch(up.err)
    [] up.kind = "status" -> Respond(StatusServerError, up.body)
    [] up.kind = "unreadable" -> Catch(SyntaxError)
    [] OTHER -> ResultRouteTs(JSONParse(ContentOrEmptyObject(up.content)))

\* ------------------------------------------------ part_001 (the fetch handler)
\* await req.json().catch(() => ({})), from what parsing the body gave (p).
BodyOrEmptyObject(p) == IF p.ok THEN p.v ELSE JObj(<<>>)

\* Lines 10-25, from the body read (b): env check first, then validation.
CheckPart001(apiKeySet, b) ==
  CASE ~apiKeySet -> Respond(StatusServerError, MsgMissingKeyLocal)
    [] apiKeySet /\ Nullish(b) -> Catch(TypeError)
    [] apiKeySet /\ ~Nullish(b) /\ Rejected(Get(b, KeyFlow)) ->
         Respond(StatusBadRequest, MsgShort)
    [] OTHER -> CallUpstream

\* Lines 9-56: up to the upstream call.
BeforeCallPart001(apiKeySet, body) ==
  CheckPart001(apiKeySet, BodyOrEmptyObject(JSONParse(body)))

\* `OpenAI error (${resp.status}): ${t}`
OpenAIError(status, t) == OpenAIErrorOpen \o Digits(status) \o OpenAIErrorClose \o t

\* Lines 72-91, from what JSON.parse(content) gave (p).
ResultPart001(p) ==
  CASE ~p.ok -> Respond(StatusServerError, MsgInvalidJSON)
    [] p.ok /\ Nullish(p.v) -> Catch(TypeError)
    [] OTHER -> Validate(p.v, MsgRetry)

\* Lines 58-91.
AfterCallPart001(up) ==
  CASE up.kind = "rejects" -> Catch(up.err)
    [] up.kind = "status" -> Respond(StatusServerError, OpenAIError(up.status, up.body))
    [] up.kind = "unreadable" -> Catch(SyntaxError)
    [] OTHER -> ResultPart001(JSONParse(ContentOrEmptyObject(up.content)))

\* ------------------------------------------------- part_002 (the SDK handler)
\* typeof body.flow === "string" ? body.flow.trim() : ""
TrimmedFlow(v) == IF IsString(v) THEN Trim(v.s) ELSE <<>>

\* Lines 8-17, from the body read (b): env check, then the trimmed flow's length.
CheckPart002(apiKeySet, b) ==
  CASE ~apiKeySet -> Respond(StatusServerError, MsgMissingKey)
    [] apiKeySet /\ Nullish(b) -> CatchDetail(TypeError)
    [] apiKeySet /\ ~Nullish(b) /\ Len(TrimmedFlow(Get(b, KeyFlow))) < MinNarrative ->
         Respond(StatusBadRequest, MsgShort)
    [] OTHER -> CallUpstream

\* Lines 7-39: up to the upstream call.
BeforeCallPart002(apiKeySet, body) ==
  CheckPart002(apiKeySet, BodyOrEmptyObject(JSONParse(body)))

\* The error the SDK client throws for a non-success status: its message holds
\* the status and the upstream body.
APIError(status, body) == Thrown(TRUE, Digits(status) \o <<" ">> \o body)

\* Lines 42-53, from what JSON.parse(content) gave (p).
ResultPart002(p) ==
  CASE ~p.ok -> Respond(StatusServerError, MsgInvalidJSON)
    [] p.ok /\ Nullish(p.v) -> CatchDetail(TypeError)
    [] OTHER -> Validate(p.v, MsgInvalidMermaid)

\* Lines 31-57: client.chat.completions.create throws on every failure.
AfterCallPart002(up) ==
  CASE up.kind = "rejects" -> CatchDetail(up.err)
    [] up.kind = "status" -> CatchDetail(APIError(up.status, up.body))
    [] up.kind = "unreadable" -> CatchDetail(SyntaxError)
    [] OTHER -> ResultPart002(JSONParse(ContentOrEmptyObject(up.content)))

\* ------------------------------------------------------------ POST /api/flow
Variants == {"route.ts", "part_001", "part_002"}

\* The handler up to its upstream call.
BeforeCall(v, apiKeySet, body) ==
  CASE v = "route.ts" -> BeforeCallRouteTs(body)
    [] v = "part_001" -> BeforeCallPart001(apiKeySet, body)
    [] OTHER -> BeforeCallPart002(apiKeySet, body)

\* The handler from the upstream answer on.
AfterCall(v, up) ==
  CASE v = "route.ts" -> AfterCallRouteTs(up)
    [] v = "part_001" -> AfterCallPart001(up)
    [] OTHER -> AfterCallPart002(up)

\* ------------------------------------------------------------------ inputs
\* Narrative body lengths: empty, and from one below the threshold up.
FlowLens == {0} \cup ((MinNarrative - 1)..MaxFlowLen)

\* The narratives a user types or a client posts.
Flows ==
  {Rep(" ", i) \o Rep("a", n) \o Rep(" ", j) : <<i, n, j>> \in (0..MaxPad) \X FlowLens \X (0..MaxPad)}

\* The narratives typed into the UI's textarea or filled in by a preset.
UIFlows == {Rep("a", n) : n \in FlowLens} \cup {Rep(" ", MaxPad)}

\* JSON.stringify({ flow })
FlowBody(flow) == Stringify(JObj(<<Member(KeyFlow, JStr(flow))>>))

\* Request bodies of an arbitrary HTTP client: every narrative, a flow that is
\* not text, no flow, JSON that is no object, and text that is no JSON.
RawBodies ==
  {FlowBody(f) : f \in Flows}
    \cup {Stringify(JObj(<<Member(KeyFlow, v)>>)) : v \in {JNum(5), JNull, JTrue, JObj(<<>>)}}
    \cup {Stringify(v) : v \in {JObj(<<>>), JNull, JNum(5), JStr(Rep("a", MinNarrative)), JArr(<<>>)}}
    \cup {<<>>, <<"{", "\"", "f", "l", "o", "w", "\"", ":">>}

DiagramBody == <<"\n","A","-",">",">","B",":"," ","x">>

GraphText == <<"g","r","a","p","h"," ","T","D",";">>

NotesText == <<"-"," ","a","\n","-"," ","b">>

QuotaBody == <<"{","\"","e","r","r","o","r","\"",":","{","\"","c","o","d","e","\"",":","\"","i","n","s","u","f","f","i","c","i","e","n","t","_","q","u","o","t","a","\"","}","}">>

BadGateway == <<"B","a","d"," ","G","a","t","e","w","a","y">>

NotJSON == <<"n","o","t"," ","j","s","o","n">>

\* Values the model's output gives its mermaid field.
MermaidVals ==
  {JUndef, JNum(5), JNull, JStr(<<>>), JStr(GraphText), JStr(<<" ">> \o Marker),
   JStr(SubSeq(Marker, 1, Len(Marker) - 1)), JStr(Marker), JStr(Marker \o DiagramBody)}

\* Values the model's output gives its notes field.
NotesVals == {JUndef, JNum(7), JStr(<<>>), JStr(NotesText)}

\* Message contents of a completion: objects over those fields, an object with a
\* further field, JSON that is no object, and text that is no JSON.
Contents ==
  {Stringify(JObj(<<Member(KeyMermaid, m), Member(KeyNotes, n)>>)) :
     <<m, n>> \in MermaidVals \X NotesVals}
    \cup {Stringify(JObj(<<Member(KeyMermaid, JStr(Marker)), Member(KeyNotes, JStr(NotesText)),
                           Member(KeyDetail, JNum(1))>>))}
    \cup {Stringify(v) : v \in {JNull, JStr(Marker), JArr(<<>>)}}
    \cup {NotJSON, <<"{", "\"", "m", "e", "r", "m", "a", "i", "d", "\"", ":">>}

\* Every answer of the upstream service.
Outcomes ==
  {Up("rejects", 0, <<>>, JUndef, e) : e \in {Thrown(TRUE, MsgFetchFailed), Thrown(FALSE, NotJSON)}}
    \cup {Up("status", 429, QuotaBody, JUndef, NoThrow), Up("status", 502, BadGateway, JUndef, NoThrow)}
    \cup {Up("unreadable", 200, NotJSON, JUndef, NoThrow)}
    \cup {Up("completion", 200, <<>>, c, NoThrow) : c \in {JUndef, JNull}}
    \cup {Up("completion", 200, <<>>, JStr(c), NoThrow) : c \in Contents}

\* Responses ([status, text]) that reach the UI without the route having written them (the
\* platform's or a proxy's pages): success statuses whose body has no mermaid,
\* is JSON null or is no JSON; and error statuses with a plain text, an empty
\* and a JSON body.
OtherResponses ==
  {[status |-> StatusOK, text |-> Stringify(v)] : v \in {JObj(<<>>), JNull}}
    \cup {[status |-> StatusOK, text |-> BadGateway], [status |-> 502, text |-> BadGateway],
          [status |-> 504, text |-> <<>>], [status |-> 429, text |-> QuotaBody]}

\* Success responses whose mermaid is no text or lacks the prefix, for the UI
\* that checks the prefix (page.tsx).
WrongDiagrams ==
  {[status |-> StatusOK, text |-> Stringify(v)] :
     v \in {JObj(<<Member(KeyMermaid, JNum(5))>>),
            JObj(<<Member(KeyMermaid, JStr(GraphText)), Member(KeyNotes, JStr(NotesText))>>),
            JObj(<<Member(KeyMermaid, JStr(<<" ">> \o Marker))>>)}}

\* ---------------------------------------------------------------- UI texts
MsgPasteFirst == <<"P","l","e","a","s","e"," ","p","a","s","t","e"," ","o","r"," ","s","e","l","e","c","t"," ","a"," ","p","r","e","s","e","t"," ","n","a","r","r","a","t","i","v","e"," ","f","i","r","s","t",".">>

MsgQuota == <<"A","P","I"," ","q","u","o","t","a"," ","u","n","a","v","a","i","l","a","b","l","e","."," ","A","d","d"," ","b","i","l","l","i","n","g"," ","o","r"," ","s","w","i","t","c","h"," ","t","o"," ","a"," ","k","e","y"," ","w","i","t","h"," ","c","r","e","d","i","t","s",".">>

MsgGenerateAgain == <<"C","o","u","l","d","n","'","t"," ","r","e","n","d","e","r"," ","t","h","e"," ","d","i","a","g","r","a","m","."," ","P","l","e","a","s","e"," ","G","e","n","e","r","a","t","e"," ","a","g","a","i","n",".">>

MsgUnexpected == <<"S","e","r","v","e","r"," ","r","e","t","u","r","n","e","d"," ","a","n"," ","u","n","e","x","p","e","c","t","e","d"," ","r","e","s","p","o","n","s","e","."," ","P","l","e","a","s","e"," ","t","r","y"," ","a","g","a","i","n",".">>

MsgNoDiagram == <<"T","h","e"," ","m","o","d","e","l"," ","d","i","d","n","'","t"," ","r","e","t","u","r","n"," ","a"," ","v","a","l","i","d"," ","d","i","a","g","r","a","m","."," ","T","r","y"," ","a","g","a","i","n",".">>

MsgWentWrong == <<"S","o","m","e","t","h","i","n","g"," ","w","e","n","t"," ","w","r","o","n","g",".">>

ApiFailedOpen == <<"A","P","I"," ","f","a","i","l","e","d"," ","(">>

MsgNetworkError == <<"N","e","t","w","o","r","k"," ","e","r","r","o","r">>

MsgNoNotes == <<"N","o"," ","d","e","t","a","i","l","e","d"," ","e","x","p","l","a","n","a","t","i","o","n"," ","w","a","s"," ","r","e","t","u","r","n","e","d"," ","f","o","r"," ","t","h","i","s"," ","f","l","o","w",".">>

SubQuota == <<"i","n","s","u","f","f","i","c","i","e","n","t","_","q","u","o","t","a">>

SubModel == <<"M","o","d","e","l"," ","d","i","d"," ","n","o","t"," ","r","e","t","u","r","n">>

MsgFailedToFetch == <<"F","a","i","l","e","d"," ","t","o"," ","f","e","t","c","h">>

\* A slip: the "Model did not return" rule tried before the quota rule.
CleanApiErrorModelFirst(msg) ==
  CASE Includes(msg, SubModel) -> MsgGenerateAgain
    [] ~Includes(msg, SubModel) /\ Includes(msg, SubQuota) -> MsgQuota
    [] ~Includes(msg, SubQuota) /\ ~Includes(msg, SubModel) /\ StartsWith(Trim(msg), <<"{">>) ->
         MsgUnexpected
    [] OTHER -> msg

\* page.tsx cleanApiError(msg)
CleanApiError(msg) ==
  CASE Includes(msg, SubQuota) -> MsgQuota
    [] ~Includes(msg, SubQuota) /\ Includes(msg, SubModel) -> MsgGenerateAgain
    [] ~Includes(msg, SubQuota) /\ ~Includes(msg, SubModel) /\ StartsWith(Trim(msg), <<"{">>) ->
         MsgUnexpected
    [] OTHER -> msg

\* r.ok / res.ok
IsOk(status) == status >= 200 /\ status <= 299

\* The text a non-string value shows as when the UI stores it in a text field.
AsText(v) == IF IsString(v) THEN v.s ELSE Stringify(v)

\* The SVG text mermaid.render produces for a diagram text.
SvgOf(d) == <<"<", "s", "v", "g", ">">> \o d \o <<"<", "/", "s", "v", "g", ">">>

\* The UI fields a settled generation leaves behind.
Shown(m, n, e) == [mermaidCode |-> m, notes |-> n, error |-> e]

\* A slip: the prefix check left out.
PageFieldsUnchecked(m, n) == Shown(m, n, <<>>)

\* page.tsx generate(), lines 85-91: the two fields of the response data.
PageFields(m, n) ==
  IF ~StartsWith(m, Marker)
  THEN Shown(<<>>, <<>>, CleanApiError(MsgNoDiagram))
  ELSE Shown(m, n, <<>>)

\* page.tsx generate(), line 84: (data ?? {}) as { mermaid?: unknown; notes?: unknown }
PageSafe(safe) ==
  PageFields(TextOrEmpty(Get(safe, KeyMermaid)), TextOrEmpty(Get(safe, KeyNotes)))

\* page.tsx generate(), lines 82-83, from the status and the body text.
PageRead(status, text) ==
  IF ~IsOk(status)
  THEN Shown(<<>>, <<>>, CleanApiError(text))
  ELSE PageSafe(BodyOrEmptyObject(JSONParse(text)))

\* page.tsx generate(), lines 82-94: what a received response leaves in
\* (mermaidCode, notes, error).
PageOutcome(r) == PageRead(r.status, Stringify(r.body))

\* part_000 handleGenerate(), lines 58-63: the message for a non-success status.
HomeError(status, p) ==
  IF p.ok /\ ~Nullish(p.v) /\ Truthy(Get(p.v, KeyError))
  THEN AsText(Get(p.v, KeyError))
  ELSE ApiFailedOpen \o Digits(status) \o <<")">>

\* part_000 handleGenerate(), line 65: data?.mermaid || ""
HomeDiagram(v) == IF Truthy(v) THEN AsText(v) ELSE <<>>

\* part_000 handleGenerate(), line 66: data?.notes ?? "No detailed explanation ..."
HomeNotes(v) == IF Nullish(v) THEN MsgNoNotes ELSE AsText(v)

\* data?.key
Optional(v, k) == IF Nullish(v) THEN JUndef ELSE Get(v, k)

\* part_000 handleGenerate(), lines 58-68, from the status and JSON.parse(raw).
HomeRead(status, p) ==
  CASE ~IsOk(status) -> Shown(<<>>, <<>>, HomeError(status, p))
    [] IsOk(status) /\ ~p.ok -> Shown(<<>>, <<>>, MsgSyntaxError)
    [] OTHER ->
         Shown(HomeDiagram(Optional(p.v, KeyMermaid)), HomeNotes(Optional(p.v, KeyNotes)), <<>>)

\* part_000 handleGenerate(), lines 57-68: what a received response leaves in
\* (diagram, notes, errorMsg).
HomeOutcome(r) == HomeRead(r.status, JSONParse(Stringify(r.body)))

\* ------------------------------------------------------------------- state
VARIABLES
  variant,        \* which revision of the route is deployed
  apiKey,         \* whether OPENAI_API_KEY is set in the environment
  client,         \* who posts to the endpoint: "raw", "page" (page.tsx), "home" (part_000)
  pc,             \* the request's position: idle, received, calling, responded
  reqBody,        \* the request body text
  upstreamCalls,  \* calls made to the upstream service for this request
  up,             \* the upstream answer, once it has arrived
  resp,           \* the handler's response, once produced
  thrown,         \* the exception the handler's catch block caught, if any
  flow,           \* UI: the narrative (flow / inputValue)
  mermaidCode,    \* UI: the diagram text (mermaidCode / diagram)
  notes,          \* UI: the notes
  error,          \* UI: the message shown (error / errorMsg)
  loading,        \* UI: a generation is in progress
  svg,            \* part_000: the rendered SVG text; page.tsx: the svg element in the diagram panel
  renders,        \* part_000: diagrams whose mermaid.render has not completed
  httpSent,       \* HTTP requests issued by the latest Generate trigger
  pending,        \* UI: fetch calls to /api/flow that have not settled
  saved,          \* UI: the file an export button made the browser save last, "none" before any
  msg,            \* cleanApiError: its argument
  cleaned         \* cleanApiError: <<>> before the call, <<its result>> after

server == <<pc, reqBody, upstreamCalls, up, resp, thrown>>

env == <<variant, apiKey, client>>

ui == <<flow, mermaidCode, notes, error, loading, svg, renders, httpSent, pending, saved>>

fn == <<msg, cleaned>>

vars == <<variant, apiKey, client, pc, reqBody, upstreamCalls, up, resp, thrown,
          flow, mermaidCode, notes, error, loading, svg, renders, httpSent,
          pending, saved, msg, cleaned>>

Init ==
  /\ variant \in Variants
  /\ apiKey \in BOOLEAN
  /\ client \in {"raw", "page", "home"}
  /\ pc = "idle"
  /\ reqBody = <<>>
  /\ upstreamCalls = 0
  /\ up = NoUp
  /\ resp = NoResp
  /\ thrown = NoThrow
  /\ flow = <<>>
  /\ mermaidCode = <<>>
  /\ notes = <<>>
  /\ error = <<>>
  /\ loading = FALSE
  /\ svg = <<>>
  /\ renders = {}
  /\ httpSent = 0
  /\ pending = 0
  /\ saved = "none"
  /\ msg = <<>>
  /\ cleaned = <<>>

\* A request with this body reaches the endpoint.
Post(body) ==
  /\ pc' = "received"
  /\ reqBody' = body
  /\ upstreamCalls' = 0
  /\ up' = NoUp
  /\ resp' = NoResp
  /\ thrown' = NoThrow

\* The exchange is over: the endpoint keeps nothing of it.
Forget ==
  /\ pc' = "idle"
  /\ reqBody' = <<>>
  /\ upstreamCalls' = 0
  /\ up' = NoUp
  /\ resp' = NoResp
  /\ thrown' = NoThrow

\* ------------------------------------------------------- endpoint actions
\* An arbitrary HTTP client posts a body.
RawRequest ==
  /\ client = "raw"
  /\ pc = "idle"
  /\ \E body \in RawBodies : Post(body)
  /\ UNCHANGED <<env, ui, fn>>

\* POST up to the upstream call: it responds, or makes the one call and awaits it.
Handle ==
  /\ pc = "received"
  /\ \E o \in {BeforeCall(variant, apiKey, reqBody)} :
         IF o.call
         THEN /\ pc' = "calling"
              /\ upstreamCalls' = upstreamCalls + 1
              /\ UNCHANGED <<resp, thrown>>
         ELSE /\ pc' = "responded"
              /\ resp' = o.resp
              /\ thrown' = o.thrown
              /\ UNCHANGED upstreamCalls
  /\ UNCHANGED <<reqBody, up, env, ui, fn>>

\* The awaited upstream call settles and POST runs to its response.
UpstreamReturns ==
  /\ pc = "calling"
  /\ \E u \in Outcomes :
       \E o \in {AfterCall(variant, u)} :
         /\ up' = u
         /\ resp' = o.resp
         /\ thrown' = o.thrown
  /\ pc' = "responded"
  /\ UNCHANGED <<reqBody, upstreamCalls, env, ui, fn>>

\* The raw client receives the response.
RawDeliver ==
  /\ client = "raw"
  /\ pc = "responded"
  /\ Forget
  /\ UNCHANGED <<env, ui, fn>>

\* ------------------------------------------------------------- UI actions
\* The textarea's onChange or a preset button: setFlow / setInputValue.
SetFlow ==
  /\ client \in {"page", "home"}
  /\ \E f \in UIFlows : flow' = f
  /\ UNCHANGED <<env, server, mermaidCode, notes, error, loading, svg, renders, httpSent,
                 pending, saved, fn>>

\* A slip: the shortcut starts a generation whatever loading is.
KeyAlways == TRUE

\* page.tsx line 244: the Generate button is not disabled.
ClickEnabled == ~(loading \/ Trim(flow) = <<>>)

\* page.tsx lines 173-178: Cmd/Ctrl+Enter calls generate().
KeyEnabled == ~loading

\* part_000 line 214: the Generate button is not disabled.
ButtonEnabled == ~loading

\* page.tsx generate(): up to the awaited fetch, or to the end of its finally
\* block when the narrative is blank.  Emptying mermaidCode unmounts the panel.
PageGenerate ==
  /\ mermaidCode' = <<>>
  /\ notes' = <<>>
  /\ svg' = <<>>
  /\ IF Trim(flow) = <<>>
     THEN /\ error' = CleanApiError(MsgPasteFirst)
          /\ loading' = FALSE
          /\ httpSent' = 0
          /\ UNCHANGED <<server, pending>>
     ELSE /\ error' = <<>>
          /\ loading' = TRUE
          /\ httpSent' = 1
          /\ pending' = pending + 1
          /\ Post(FlowBody(flow))
  /\ UNCHANGED <<env, flow, renders, saved, fn>>

\* page.tsx: a click on the Generate button.
PageClick ==
  /\ client = "page"
  /\ ClickEnabled
  /\ PageGenerate

\* page.tsx: Cmd/Ctrl+Enter.
PageKey ==
  /\ client = "page"
  /\ KeyEnabled
  /\ PageGenerate

\* page.tsx generate() from the resolved fetch to the end of its finally block.
PageResponse ==
  /\ client = "page"
  /\ pc = "responded"
  /\ \E o \in {PageOutcome(resp)} :
       /\ mermaidCode' = o.mermaidCode
       /\ notes' = o.notes
       /\ error' = o.error
  /\ loading' = FALSE
  /\ pending' = pending - 1
  /\ Forget
  /\ UNCHANGED <<env, flow, svg, renders, httpSent, saved, fn>>

\* page.tsx generate() when the fetch resolves with a response the route did
\* not write (the platform or a proxy answered).
PageOtherResponse ==
  /\ client = "page"
  /\ pc = "received"
  /\ \E r \in OtherResponses \cup WrongDiagrams :
       \E o \in {PageRead(r.status, r.text)} :
         /\ mermaidCode' = o.mermaidCode
         /\ notes' = o.notes
         /\ error' = o.error
  /\ loading' = FALSE
  /\ pending' = pending - 1
  /\ Forget
  /\ UNCHANGED <<env, flow, svg, renders, httpSent, saved, fn>>

\* page.tsx generate() when fetch rejects: the catch and finally blocks.
PageFetchRejects ==
  /\ client = "page"
  /\ pc = "received"
  /\ error' = CleanApiError(MsgFailedToFetch)
  /\ loading' = FALSE
  /\ pending' = pending - 1
  /\ Forget
  /\ UNCHANGED <<env, flow, mermaidCode, notes, svg, renders, httpSent, saved, fn>>

\* page.tsx Clear button.
PageClear ==
  /\ client = "page"
  /\ flow' = <<>>
  /\ mermaidCode' = <<>>
  /\ notes' = <<>>
  /\ error' = <<>>
  /\ svg' = <<>>
  /\ UNCHANGED <<env, server, loading, renders, httpSent, pending, saved, fn>>

\* page.tsx lines 59-66: mermaid.init() turns the mounted panel's text into an svg.
PageRendered ==
  /\ client = "page"
  /\ mermaidCode # <<>>
  /\ svg = <<>>
  /\ svg' = SvgOf(mermaidCode)
  /\ UNCHANGED <<env, server, flow, mermaidCode, notes, error, loading, renders, httpSent,
                 pending, saved, fn>>

\* part_000 handleGenerate() up to the awaited fetch.
HomeGenerate ==
  /\ client = "home"
  /\ ButtonEnabled
  /\ loading' = TRUE
  /\ error' = <<>>
  /\ mermaidCode' = <<>>
  /\ svg' = <<>>
  /\ notes' = <<>>
  /\ httpSent' = 1
  /\ pending' = pending + 1
  /\ Post(FlowBody(flow))
  /\ UNCHANGED <<env, flow, renders, saved, fn>>

\* part_000 lines 37-41: the effect starts a render when the diagram changed to
\* a non-empty text.
Effect(before, after, pendingRenders) ==
  IF after # before /\ after # <<>> THEN pendingRenders \cup {after} ELSE pendingRenders

\* part_000 handleGenerate() from the resolved fetch on.
HomeResponse ==
  /\ client = "home"
  /\ pc = "responded"
  /\ \E o \in {HomeOutcome(resp)} :
       /\ mermaidCode' = o.mermaidCode
       /\ notes' = o.notes
       /\ error' = o.error
       /\ renders' = Effect(mermaidCode, o.mermaidCode, renders)
  /\ loading' = FALSE
  /\ pending' = pending - 1
  /\ Forget
  /\ UNCHANGED <<env, flow, svg, httpSent, saved, fn>>

\* part_000 handleGenerate() when the fetch resolves with a response the route
\* did not write.
HomeOtherResponse ==
  /\ client = "home"
  /\ pc = "received"
  /\ \E r \in OtherResponses :
       \E o \in {HomeRead(r.status, JSONParse(r.text))} :
         /\ mermaidCode' = o.mermaidCode
         /\ notes' = o.notes
         /\ error' = o.error
         /\ renders' = Effect(mermaidCode, o.mermaidCode, renders)
  /\ loading' = FALSE
  /\ pending' = pending - 1
  /\ Forget
  /\ UNCHANGED <<env, flow, svg, httpSent, saved, fn>>

\* part_000 handleGenerate() when fetch rejects.
HomeFetchRejects ==
  /\ client = "home"
  /\ pc = "received"
  /\ error' = MsgFailedToFetch
  /\ loading' = FALSE
  /\ pending' = pending - 1
  /\ Forget
  /\ UNCHANGED <<env, flow, mermaidCode, notes, svg, renders, httpSent, saved, fn>>

\* part_000 clearAll().
HomeClear ==
  /\ client = "home"
  /\ flow' = <<>>
  /\ mermaidCode' = <<>>
  /\ svg' = <<>>
  /\ notes' = <<>>
  /\ error' = <<>>
  /\ UNCHANGED <<env, server, loading, renders, httpSent, pending, saved, fn>>

\* part_000: a pending mermaid.render resolves and its then-callback runs setSvg.
RenderDone ==
  /\ \E d \in renders :
       /\ svg' = SvgOf(d)
       /\ renders' = renders \ {d}
  /\ UNCHANGED <<env, server, flow, mermaidCode, notes, error, loading, httpSent,
                 pending, saved, fn>>

\* part_000: a pending mermaid.render rejects (no handler is attached).
RenderFails ==
  /\ \E d \in renders : renders' = renders \ {d}
  /\ UNCHANGED <<env, server, flow, mermaidCode, notes, error, loading, svg, httpSent,
                 pending, saved, fn>>

\* ---------------------------------------------------------------- exports
\* A slip: the export runs without looking for a rendered diagram.
SaveUnguarded(rendered, file, last) == file

\* downloadSVG / downloadPNG: return when there is no svg, else make the
\* browser save the file.
Save(rendered, file, last) == IF rendered = <<>> THEN last ELSE file

\* page.tsx downloadSVG(); its button is in the panel shown while mermaidCode
\* is non-empty.
PageDownloadSVG ==
  /\ client = "page"
  /\ mermaidCode # <<>>
  /\ saved' = Save(svg, "svg", saved)
  /\ UNCHANGED <<env, server, flow, mermaidCode, notes, error, loading, svg, renders,
                 httpSent, pending, fn>>

\* page.tsx downloadPNG(): with an svg, the image loads and the canvas yields a
\* blob that is saved, or one of them fails and nothing is saved.
PageDownloadPNG ==
  /\ client = "page"
  /\ mermaidCode # <<>>
  /\ \E drawn \in BOOLEAN :
       saved' = IF drawn THEN Save(svg, "png", saved) ELSE saved
  /\ UNCHANGED <<env, server, flow, mermaidCode, notes, error, loading, svg, renders,
                 httpSent, pending, fn>>

\* part_000 downloadSVG(); its button is disabled while svg is empty.
HomeDownloadSVG ==
  /\ client = "home"
  /\ svg # <<>>
  /\ saved' = Save(svg, "svg", saved)
  /\ UNCHANGED <<env, server, flow, mermaidCode, notes, error, loading, svg, renders,
                 httpSent, pending, fn>>

\* part_000 downloadPNG(); its button is disabled while svg is empty.
HomeDownloadPNG ==
  /\ client = "home"
  /\ svg # <<>>
  /\ \E drawn \in BOOLEAN :
       saved' = IF drawn THEN Save(svg, "png", saved) ELSE saved
  /\ UNCHANGED <<env, server, flow, mermaidCode, notes, error, loading, svg, renders,
                 httpSent, pending, fn>>

\* part_000 downloadText(): no check of its own; its button is disabled while
\* diagram and notes are both empty.
HomeDownloadText ==
  /\ client = "home"
  /\ ~(mermaidCode = <<>> /\ notes = <<>>)
  /\ saved' = "txt"
  /\ UNCHANGED <<env, server, flow, mermaidCode, notes, error, loading, svg, renders,
                 httpSent, pending, fn>>

Next ==
  \/ RawRequest
  \/ Handle
  \/ UpstreamReturns
  \/ RawDeliver
  \/ PageClick
  \/ PageKey
  \/ PageClear
  \/ PageResponse
  \/ PageOtherResponse
  \/ PageFetchRejects
  \/ PageRendered
  \/ HomeGenerate
  \/ HomeClear
  \/ HomeResponse
  \/ HomeOtherResponse
  \/ HomeFetchRejects
  \/ SetFlow
  \/ RenderDone
  \/ RenderFails
  \/ PageDownloadSVG
  \/ PageDownloadPNG
  \/ HomeDownloadSVG
  \/ HomeDownloadPNG
  \/ HomeDownloadText

Spec == Init /\ [][Next]_vars

\* The fetch to /api/flow settles: a request does not stay forever unread by
\* the route, nor the route forever in its upstream call, nor a response forever
\* undelivered.  (Each is weak fairness of the one step enabled at that position.)
LiveSpec ==
  /\ Spec
  /\ []<>(pc # "received")
  /\ []<>(pc # "calling")
  /\ []<>(pc # "responded")

\* ------------------------------------------------- cleanApiError on its own
\* Raw messages: a prefix, up to two of the substrings the rules look for in
\* either order, and a suffix; and the messages generate() itself throws.
RawMessages ==
  {pre \o a \o b \o post :
     <<pre, a, b, post>> \in {<<>>, <<" ">>, <<"{">>, <<" ", "{">>, <<"x">>}
                               \X {<<>>, SubQuota, SubModel}
                               \X {<<>>, SubQuota, SubModel}
                               \X {<<>>, <<"}">>}}
    \cup {MsgPasteFirst, MsgNoDiagram, MsgWentWrong, MsgFailedToFetch}

CleanInit ==
  /\ variant = "route.ts"
  /\ apiKey = TRUE
  /\ client = "page"
  /\ pc = "idle"
  /\ reqBody = <<>>
  /\ upstreamCalls = 0
  /\ up = NoUp
  /\ resp = NoResp
  /\ thrown = NoThrow
  /\ flow = <<>>
  /\ mermaidCode = <<>>
  /\ notes = <<>>
  /\ error = <<>>
  /\ loading = FALSE
  /\ svg = <<>>
  /\ renders = {}
  /\ httpSent = 0
  /\ pending = 0
  /\ saved = "none"
  /\ msg \in RawMessages
  /\ cleaned = <<>>

\* cleanApiError(msg) is called and returns.
CleanCall ==
  /\ cleaned = <<>>
  /\ cleaned' = <<CleanApiError(msg)>>
  /\ UNCHANGED <<env, server, ui, msg>>

CleanSpec == CleanInit /\ [][CleanCall]_vars

\* ===================================================================== claims
\* What the claims speak of, read off the request and the upstream answer
\* independently of the handler's own steps.

\* The request's flow field: undefined unless the body is a JSON object holding one.
ReqFlow ==
  LET p == JSONParse(reqBody)
  IN  IF p.ok /\ p.v.t = "object" THEN Get(p.v, KeyFlow) ELSE JUndef

InFlight == pc \in {"received", "calling", "responded"}

Responded == pc = "responded"

\* The request's flow is text whose trimmed length is below the threshold.
ShortFlow == InFlight /\ IsString(ReqFlow) /\ Len(Trim(ReqFlow.s)) < MinNarrative

\* The request's flow is text of at least the threshold's trimmed length.
LongFlow == InFlight /\ IsString(ReqFlow) /\ Len(Trim(ReqFlow.s)) >= MinNarrative

\* The handler answered after a completion whose content is a text.
Completed == Responded /\ up.kind = "completion" /\ IsString(up.content)

\* That content, parsed.
Parsed == JSONParse(up.content.s)

ParsedMermaid == IF Parsed.v.t = "object" THEN Get(Parsed.v, KeyMermaid) ELSE JUndef

ParsedNotes == IF Parsed.v.t = "object" THEN Get(Parsed.v, KeyNotes) ELSE JUndef

\* The message each revision answers a missing key with (route.ts has no such check).
MissingKeyMessage == IF variant = "part_001" THEN MsgMissingKeyLocal ELSE MsgMissingKey

\* The message each revision answers a failed marker check with.
RetryMessage == IF variant = "part_002" THEN MsgInvalidMermaid ELSE MsgRetry

\* The keys of the response body, in order.
BodyKeys == [i \in 1..Len(resp.body.mem) |-> resp.body.mem[i].k]

\* ---------------------------------------------------------------------- C1
\* C1 as stated: a request whose flow is text of trimmed length below 10 is
\* answered 400 "Please provide a longer narrative." whatever the environment,
\* and the upstream service is never called for it.
C1_AsStated ==
  ShortFlow =>
    /\ upstreamCalls = 0
    /\ pc # "calling"
    /\ Responded => resp = Resp(StatusBadRequest, ErrorBody(MsgShort))

\* C1 amended: for such a request the upstream service is never called; the
\* answer is 400 with the fixed message, except that part_001 and part_002,
\* which check the environment first, answer 500 with their missing-key message
\* when the API key is unset.
C1_ShortFlowRejected ==
  ShortFlow =>
    /\ upstreamCalls = 0
    /\ pc # "calling"
    /\ Responded =>
         resp = IF variant # "route.ts" /\ ~apiKey
                THEN Resp(StatusServerError, ErrorBody(MissingKeyMessage))
                ELSE Resp(StatusBadRequest, ErrorBody(MsgShort))

\* A flow of raw length 10 or more whose trimmed length is below 10 was answered 400.
C1_Witness ==
  /\ ShortFlow
  /\ Responded
  /\ Len(ReqFlow.s) >= MinNarrative
  /\ resp.status = StatusBadRequest

\* ---------------------------------------------------------------------- C2
\* C2 as stated (with the API key configured): a request whose flow is absent
\* or not text, whether the body is an object, JSON null, any other JSON or no
\* JSON at all, is answered 400 and the upstream service is not called.
C2_AsStated ==
  (apiKey /\ InFlight /\ ~IsString(ReqFlow)) =>
    /\ upstreamCalls = 0
    /\ Responded => resp.status = StatusBadRequest

\* ---------------------------------------------------------------------- C3
\* C3 as stated: when the completion's content is not valid JSON the answer is
\* 500 with the fixed message "Model did not return valid JSON.".
C3_AsStated ==
  (Completed /\ ~Parsed.ok) => resp = Resp(StatusServerError, ErrorBody(MsgInvalidJSON))

\* ---------------------------------------------------------------------- C4
\* C4 as stated: when the content parses as JSON and its mermaid field is
\* missing, not text, or does not start with "sequenceDiagram", the answer is
\* 500 with the revision's retry message, whatever notes is.
C4_AsStated ==
  (Completed /\ Parsed.ok /\ ~StartsWith(TextOrEmpty(ParsedMermaid), Marker)) =>
    resp = Resp(StatusServerError, ErrorBody(RetryMessage))

\* ---------------------------------------------------------------------- C5
\* C5: when the content is a JSON object whose mermaid is text starting with
\* "sequenceDiagram" and whose notes is text, the answer is 200 and its body
\* holds exactly mermaid and notes, with the upstream values unchanged.
C5_ValidResultEchoed ==
  (Completed /\ Parsed.ok /\ Parsed.v.t = "object"
     /\ IsString(ParsedMermaid) /\ StartsWith(ParsedMermaid.s, Marker)
     /\ IsString(ParsedNotes)) =>
    /\ resp.status = StatusOK
    /\ BodyKeys = <<KeyMermaid, KeyNotes>>
    /\ Get(resp.body, KeyMermaid) = ParsedMermaid
    /\ Get(resp.body, KeyNotes) = ParsedNotes

\* A diagram with a body after the marker and multi-line notes were echoed.
C5_Witness ==
  /\ Completed
  /\ Parsed.ok
  /\ ParsedMermaid = JStr(Marker \o DiagramBody)
  /\ ParsedNotes = JStr(NotesText)
  /\ resp.status = StatusOK

\* A content object with a third field was answered 200.
C5_WitnessExtraField ==
  /\ Completed
  /\ Parsed.ok
  /\ Len(Parsed.v.mem) = 3
  /\ resp.status = StatusOK

\* ---------------------------------------------------------------------- C6
\* C6 as stated: when the upstream service answers with a non-success status,
\* the answer is 500 and its error field is a text containing the upstream body.
C6_AsStated ==
  (Responded /\ up.kind = "status") =>
    /\ resp.status = StatusServerError
    /\ IsString(Get(resp.body, KeyError))
    /\ Includes(Get(resp.body, KeyError).s, up.body)

\* ---------------------------------------------------------------------- C7
\* The body holds exactly these keys, in this order, each with a text value.
TextFields(keys) ==
  /\ resp.body.t = "object"
  /\ BodyKeys = keys
  /\ \A i \in 1..Len(resp.body.mem) : IsString(resp.body.mem[i].v)

\* C7 as stated: every response is either a success status with exactly the
\* text fields mermaid and notes, or a non-2xx status with exactly an error text.
C7_AsStated ==
  Responded =>
    \/ IsOk(resp.status) /\ TextFields(<<KeyMermaid, KeyNotes>>)
    \/ ~IsOk(resp.status) /\ TextFields(<<KeyError>>)

\* ---------------------------------------------------------------------- C8
\* C8 as stated: when the parsed content lacks mermaid or notes as text, the
\* answer is 500, also when mermaid is valid and only notes is missing.
C8_AsStated ==
  (Completed /\ Parsed.ok /\ (~IsString(ParsedMermaid) \/ ~IsString(ParsedNotes))) =>
    resp.status = StatusServerError

\* C8 amended: when the parsed content has no text mermaid the answer is 500;
\* when mermaid is text starting with the marker and only notes is absent or
\* not text, the answer is 200 with that mermaid and notes defaulted to the
\* empty text.
C8_MissingFieldsDefaulted ==
  /\ (Completed /\ Parsed.ok /\ ~IsString(ParsedMermaid)) =>
       resp.status = StatusServerError
  /\ (Completed /\ Parsed.ok /\ IsString(ParsedMermaid)
        /\ StartsWith(ParsedMermaid.s, Marker) /\ ~IsString(ParsedNotes)) =>
       resp = Resp(StatusOK, ResultBody(ParsedMermaid.s, <<>>))

\* A valid mermaid with notes of the wrong type was answered 200.
C8_Witness ==
  /\ Completed
  /\ Parsed.ok
  /\ IsString(ParsedMermaid)
  /\ ParsedNotes = JNum(7)
  /\ resp.status = StatusOK

\* A content without mermaid and with text notes was answered 500.
C8_WitnessNoMermaid ==
  /\ Completed
  /\ Parsed.ok
  /\ ParsedMermaid = JUndef
  /\ ParsedNotes = JStr(NotesText)
  /\ resp.status = StatusServerError

\* ---------------------------------------------------------------------- C9
\* C9 as stated: whenever a step of the handler throws, the handler still
\* responds, with 500 and an error field that is the exception's message, or
\* "Unknown error" when the thrown value is not an Error.
C9_AsStated ==
  thrown.raised =>
    /\ Responded
    /\ resp = Resp(StatusServerError,
                   ErrorBody(IF thrown.isError THEN thrown.message ELSE MsgUnknown))

C10_WitnessIdleAfterError ==
  /\ client \in {"page", "home"}
  /\ pc = "idle"
  /\ ~loading
  /\ error # <<>>
  /\ httpSent = 1

\* --------------------------------------------------------------------- C11
\* C11: in one UI session at most one request to /api/flow is in flight at any
\* time, and no step starts a further fetch while loading is true, whatever the
\* order of clicks, shortcut presses, narrative edits and response arrivals.
C11_OneRequestInFlight ==
  /\ [](pending <= 1)
  /\ [][pending' > pending => ~loading]_vars

\* page.tsx: a request is in flight at the route while the narrative has been
\* emptied, so that only the shortcut could start generate().
C11_Witness ==
  /\ client = "page"
  /\ pending = 1
  /\ loading
  /\ pc = "calling"
  /\ flow = <<>>

\* --------------------------------------------------------------------- C12
\* A diagram is shown and no error.
Succeeded == mermaidCode # <<>> /\ error = <<>>

\* An error is shown and neither diagram nor notes.
Failed == error # <<>> /\ mermaidCode = <<>> /\ notes = <<>>

\* C12 as stated: once the fetch settles loading becomes false again, and at
\* the step where loading turns false exactly one outcome holds: a non-empty
\* diagram with an empty error, or a non-empty error with empty diagram and notes.
C12_AsStated ==
  /\ loading ~> ~loading
  /\ [][(loading /\ ~loading') => (Succeeded' # Failed')]_vars

\* --------------------------------------------------------------------- C13
\* C13 as stated: cleanApiError shows the quota message for a text containing
\* "insufficient_quota", else the 'Please Generate again' message for a text
\* containing "Model did not return", and replaces every other text by the
\* generic fallback.
C13_AsStated ==
  cleaned # <<>> =>
    cleaned[1] = IF Includes(msg, SubQuota) THEN MsgQuota
                 ELSE IF Includes(msg, SubModel) THEN MsgGenerateAgain
                 ELSE MsgUnexpected

\* C13 amended: the quota rule wins, then the "Model did not return" rule; of the
\* other texts only those whose trimmed form starts with "{" are replaced by the
\* generic text, and every remaining text is shown unchanged.
C13_OrderedRewriting ==
  cleaned # <<>> =>
    cleaned[1] = IF Includes(msg, SubQuota) THEN MsgQuota
                 ELSE IF Includes(msg, SubModel) THEN MsgGenerateAgain
                 ELSE IF Len(Trim(msg)) > 0 /\ Trim(msg)[1] = "{" THEN MsgUnexpected
                 ELSE msg

\* A text containing both substrings, the model one first, got the quota message.
C13_Witness ==
  /\ cleaned = <<MsgQuota>>
  /\ StartsWith(msg, SubModel)
  /\ Includes(msg, SubQuota)

C14_WitnessTextWithoutDiagram ==
  /\ client = "home"
  /\ mermaidCode = <<>>
  /\ notes # <<>>
  /\ saved = "txt"

\* --------------------------------------------------------------------- C15
\* C15: in page.tsx the stored diagram text is in every reachable state empty
\* or prefixed by "sequenceDiagram", whatever response the fetch resolved
\* with; the panel's svg and the exports exist only for such a text.
C15_DiagramHasMarker ==
  client = "page" =>
    /\ mermaidCode = <<>> \/ StartsWith(mermaidCode, Marker)
    /\ svg # <<>> => StartsWith(mermaidCode, Marker)

\* page.tsx turned down a success response whose mermaid lacked the prefix.
C15_Witness ==
  /\ client = "page"
  /\ ~loading
  /\ httpSent = 1
  /\ mermaidCode = <<>>
  /\ error = MsgNoDiagram

\* --------------------------------------------------------------------- C16
\* C16 as stated: in part_000 a non-empty svg implies a non-empty diagram, and
\* once no render is pending a shown svg is the rendering of the current diagram.
C16_AsStated ==
  client = "home" =>
    /\ svg # <<>> => mermaidCode # <<>>
    /\ (renders = {} /\ svg # <<>>) => svg = SvgOf(mermaidCode)

\* --------------------------------------------------------------------- C17
\* C17 as stated: in page.tsx, from the state Clear leaves while a request is
\* still in flight (narrative, diagram, notes and error empty, loading true, so
\* that no Generate can be triggered), no step puts text into diagram, notes
\* or error.
C17_AsStated ==
  [][(/\ client = "page"
      /\ loading
      /\ flow = <<>>
      /\ mermaidCode = <<>>
      /\ notes = <<>>
      /\ error = <<>>)
       => (mermaidCode' = <<>> /\ notes' = <<>> /\ error' = <<>>)]_vars

====
